---- MODULE Spec2Model ----
(***************************************************************************)
(* Realtime ingestion pipeline of the Wilson Telematics backend.           *)
(*                                                                         *)
(*   SpecAuth : the credential cache of realtimeAuth.js                    *)
(*              (getRealtimeJwt / fetchNewTokenFromDamoov /                *)
(*              invalidateRealtimeJwt) called from concurrent contexts.    *)
(*   Spec     : the login-driven connection loop of realtimePipeline.js    *)
(*              (loginForRealtime / getJwtEnsured / connectWebSocket /     *)
(*              handleAuthErrorAndReconnect).                              *)
(*   SpecLive : the live-state pipeline of realtimePipeline.js             *)
(*              (startRealtimeWebSocket / handleRealtimeMessage /          *)
(*              handleDeviceUpdate, liveDevices, liveEvents).              *)
(*   SpecRisk : classifyRisk of realtimePipeline.js, called on its own.    *)
(*                                                                         *)
(* Time is Date.now() in milliseconds.  An async function is split at its  *)
(* awaits: the part up to the await is one action, the continuation that   *)
(* runs when the awaited I/O completes is another.                         *)
(***************************************************************************)
EXTENDS Integers, Sequences, FiniteSets, Bags, TLC

VARIABLES
    now,              \* Date.now(), ms
    \* ---- realtimeAuth.js ----
    AUTH_IDS,         \* DAMOOV_AUTH_INSTANCE_ID, _LOGIN_EMAIL and _PASSWORD all set
    FALLBACK_STATIC_JWT, \* DAMOOV_REALTIME_JWT, or "null"
    cachedToken,      \* "null" or a token
    cachedExpiresAt,  \* ms timestamp
    call,             \* per calling context: the getRealtimeJwt() invocation
    exchanges,        \* history: login exchanges issued so far by realtimeAuth.js
    \* ---- realtimePipeline.js, connectWebSocket ----
    REALTIME_INSTANCE_ID, \* DAMOOV_INSTANCE_ID is set
    started,          \* startRealtimePipeline() has been called
    currentJwt,       \* NullJwt or the token of the last successful login
    socks,            \* the WebSocket objects created so far, in creation order
    logins,           \* bag of login exchanges in flight (loginForRealtime suspended in axios.post)
    timers,           \* bag of pending setTimeout callbacks
    loginCount,       \* history: login exchanges issued so far by loginForRealtime
    msgCount,         \* history: inbound messages delivered so far
    \* ---- realtimePipeline.js, startRealtimeWebSocket and the live store ----
    REALTIME_JWT,     \* DAMOOV_REALTIME_JWT || DAMOOV_ADMIN_JWT, or "null"
    ws,               \* the module-level `ws`: index in socks, 0 for null
    reconnectTimer,   \* the module-level `reconnectTimer` is set
    liveDevices,      \* deviceToken -> snapshot
    liveEvents,       \* risk events, newest first
    inserted,         \* history: risk events inserted so far
    \* ---- realtimePipeline.js, classifyRisk on its own ----
    classified,       \* the last call of classifyRisk: its argument and its result
    \* ---- server.js, process.on('uncaughtException' / 'unhandledRejection') ----
    uncaught          \* history: exceptions and rejections that escaped a callback

authVars == <<AUTH_IDS, FALLBACK_STATIC_JWT, cachedToken, cachedExpiresAt, call, exchanges>>

connVars == <<REALTIME_INSTANCE_ID, started, currentJwt, socks, logins, timers, loginCount, msgCount>>

liveVars == <<REALTIME_JWT, ws, reconnectTimer, liveDevices, liveEvents, inserted>>

vars == <<now, AUTH_IDS, FALLBACK_STATIC_JWT, cachedToken, cachedExpiresAt, call, exchanges,
          REALTIME_INSTANCE_ID, started, currentJwt, socks, logins, timers, loginCount, msgCount,
          REALTIME_JWT, ws, reconnectTimer, liveDevices, liveEvents, inserted,
          classified, uncaught>>

(***************************************************************************)
(* Bounds                                                                  *)
(***************************************************************************)
NCallers == 2            \* concurrent contexts calling getRealtimeJwt()
MaxExchanges == 3        \* login exchanges issued by realtimeAuth.js
AuthTick == 30000        \* step of the clock in SpecAuth, ms
MaxNow == 120000         \* the clock stops here
MaxSockets == 2          \* WebSocket objects created by connectWebSocket
MaxLogins == 3           \* login exchanges issued by loginForRealtime
MaxMsgs == 2             \* inbound messages delivered to the message handler
ConnTick == 60000        \* longest step of the clock in Spec, ms
MaxLiveMsgs == 2         \* inbound messages delivered to handleRealtimeMessage
MaxQuarters == 100       \* classifyRisk is called with up to this many quarters of a mph

Callers == 1..NCallers

Null == "null"
Tokens == {"jwtA", "jwtB"}          \* AccessToken.Token values the identity endpoint returns
NoExpiresIn == -1                   \* the response has no ExpiresIn / expires_in field
ExpiresInValues == {NoExpiresIn, 0, 90} \* AccessToken.ExpiresIn in seconds, or absent

\* What axios.post(AUTH_URL, ...) resolves or rejects with.
LoginResponsesOf(T) ==
    [kind : {"ok"}, token : T, expiresIn : ExpiresInValues]
      \cup [kind : {"noToken"}, token : {Null}, expiresIn : {0}]        \* 2xx without a Token field
      \cup [kind : {"error"}, token : {Null}, expiresIn : {0}]          \* network error, timeout, non-2xx

LoginResponses == LoginResponsesOf(Tokens)

(***************************************************************************)
(* realtimeAuth.js                                                         *)
(***************************************************************************)
safetyWindowMs == 60000
DefaultExpiresIn == 86400

\* line 73: ExpiresIn || expires_in || 24 * 60 * 60
\* (an absent field and the number 0 are both falsy)
ExpiresInOf(resp) ==
    IF resp.expiresIn \in {NoExpiresIn, 0} THEN DefaultExpiresIn ELSE resp.expiresIn

\* line 116: the cached token is usable
CacheFresh == cachedToken # Null /\ now < cachedExpiresAt - safetyWindowMs

\* The result without the configured override.
GetResult_NoOverride(freshToken) == freshToken

\* lines 124-137: what getRealtimeJwt returns for the result of fetchNewTokenFromDamoov
GetResult(freshToken) ==
    IF freshToken # Null THEN freshToken
    ELSE IF FALLBACK_STATIC_JWT # Null THEN FALLBACK_STATIC_JWT
    ELSE Null

\* One invocation: where it is suspended, what it returned, whether it issued a login exchange.
Idle == [pc |-> "idle", ret |-> Null, exch |-> FALSE]

AuthInit ==
    /\ AUTH_IDS \in BOOLEAN
    /\ FALLBACK_STATIC_JWT \in {Null, "static"}
    /\ cachedToken = Null
    /\ cachedExpiresAt = 0
    /\ call = [c \in Callers |-> Idle]
    /\ exchanges = 0

\* A get() that does not look at the login identifiers.
getRealtimeJwt_NoConfigCheck(c) ==
    /\ call[c].pc = "idle"
    /\ IF CacheFresh
         THEN /\ call' = [call EXCEPT ![c] = [pc |-> "idle", ret |-> cachedToken, exch |-> FALSE]]
              /\ UNCHANGED exchanges
         ELSE /\ exchanges < MaxExchanges
              /\ call' = [call EXCEPT ![c] = [pc |-> "awaitLogin", ret |-> Null, exch |-> TRUE]]
              /\ exchanges' = exchanges + 1
    /\ UNCHANGED <<now, AUTH_IDS, FALLBACK_STATIC_JWT, cachedToken, cachedExpiresAt>>
    /\ UNCHANGED connVars
    /\ UNCHANGED classified
    /\ UNCHANGED uncaught
    /\ UNCHANGED liveVars

\* getRealtimeJwt() up to its first suspension: the cache check, and
\* fetchNewTokenFromDamoov() up to `await axios.post`.
getRealtimeJwt(c) ==
    /\ call[c].pc = "idle"
    /\ IF CacheFresh
         THEN /\ call' = [call EXCEPT ![c] = [pc |-> "idle", ret |-> cachedToken, exch |-> FALSE]]
              /\ UNCHANGED exchanges
         ELSE IF ~AUTH_IDS
           THEN /\ call' = [call EXCEPT ![c] = [pc |-> "idle", ret |-> GetResult(Null), exch |-> FALSE]]
                /\ UNCHANGED exchanges
           ELSE /\ exchanges < MaxExchanges
                /\ call' = [call EXCEPT ![c] = [pc |-> "awaitLogin", ret |-> Null, exch |-> TRUE]]
                /\ exchanges' = exchanges + 1
    /\ UNCHANGED <<now, AUTH_IDS, FALLBACK_STATIC_JWT, cachedToken, cachedExpiresAt>>
    /\ UNCHANGED connVars
    /\ UNCHANGED classified
    /\ UNCHANGED uncaught
    /\ UNCHANGED liveVars

\* The continuation that has stored the token and not yet the expiry.
fetchNewTokenFromDamoov_TokenFirst(c, resp) ==
    /\ call[c].pc = "awaitLogin"
    /\ IF resp.kind = "ok"
         THEN /\ cachedToken' = resp.token
              /\ UNCHANGED cachedExpiresAt
              /\ call' = [call EXCEPT ![c] = [pc |-> "idle", ret |-> GetResult(resp.token), exch |-> TRUE]]
         ELSE /\ UNCHANGED <<cachedToken, cachedExpiresAt>>
              /\ call' = [call EXCEPT ![c] = [pc |-> "idle", ret |-> GetResult(Null), exch |-> TRUE]]
    /\ UNCHANGED <<now, AUTH_IDS, FALLBACK_STATIC_JWT, exchanges>>
    /\ UNCHANGED connVars
    /\ UNCHANGED classified
    /\ UNCHANGED uncaught
    /\ UNCHANGED liveVars

\* The continuation that drops the cached token when the exchange failed.
fetchNewTokenFromDamoov_ClearOnFailure(c, resp) ==
    /\ call[c].pc = "awaitLogin"
    /\ IF resp.kind = "ok"
         THEN /\ cachedToken' = resp.token
              /\ cachedExpiresAt' = now + ExpiresInOf(resp) * 1000
              /\ call' = [call EXCEPT ![c] = [pc |-> "idle", ret |-> GetResult(resp.token), exch |-> TRUE]]
         ELSE /\ cachedToken' = Null
              /\ cachedExpiresAt' = 0
              /\ call' = [call EXCEPT ![c] = [pc |-> "idle", ret |-> GetResult(Null), exch |-> TRUE]]
    /\ UNCHANGED <<now, AUTH_IDS, FALLBACK_STATIC_JWT, exchanges>>
    /\ UNCHANGED connVars
    /\ UNCHANGED classified
    /\ UNCHANGED uncaught
    /\ UNCHANGED liveVars

\* The continuation of fetchNewTokenFromDamoov() after `await axios.post`,
\* and the rest of getRealtimeJwt().
fetchNewTokenFromDamoov(c, resp) ==
    /\ call[c].pc = "awaitLogin"
    /\ IF resp.kind = "ok"
         THEN /\ cachedToken' = resp.token
              /\ cachedExpiresAt' = now + ExpiresInOf(resp) * 1000
              /\ call' = [call EXCEPT ![c] = [pc |-> "idle", ret |-> GetResult(resp.token), exch |-> TRUE]]
         ELSE /\ UNCHANGED <<cachedToken, cachedExpiresAt>>
              /\ call' = [call EXCEPT ![c] = [pc |-> "idle", ret |-> GetResult(Null), exch |-> TRUE]]
    /\ UNCHANGED <<now, AUTH_IDS, FALLBACK_STATIC_JWT, exchanges>>
    /\ UNCHANGED connVars
    /\ UNCHANGED classified
    /\ UNCHANGED uncaught
    /\ UNCHANGED liveVars

\* An invalidation that resets the expiry and keeps the token.
invalidateRealtimeJwt_ExpiryOnly ==
    /\ cachedExpiresAt' = 0
    /\ UNCHANGED <<now, AUTH_IDS, FALLBACK_STATIC_JWT, cachedToken, call, exchanges>>
    /\ UNCHANGED connVars
    /\ UNCHANGED classified
    /\ UNCHANGED uncaught
    /\ UNCHANGED liveVars

\* lines 141-145
invalidateRealtimeJwt ==
    /\ cachedToken' = Null
    /\ cachedExpiresAt' = 0
    /\ UNCHANGED <<now, AUTH_IDS, FALLBACK_STATIC_JWT, call, exchanges>>
    /\ UNCHANGED connVars
    /\ UNCHANGED classified
    /\ UNCHANGED uncaught
    /\ UNCHANGED liveVars

AuthClock ==
    /\ now + AuthTick <= MaxNow
    /\ now' = now + AuthTick
    /\ UNCHANGED authVars
    /\ UNCHANGED classified
    /\ UNCHANGED uncaught
    /\ UNCHANGED connVars
    /\ UNCHANGED classified
    /\ UNCHANGED uncaught
    /\ UNCHANGED liveVars

InFlight == {c \in Callers : call[c].pc = "awaitLogin"}

(***************************************************************************)
(* realtimePipeline.js: loginForRealtime, getJwtEnsured,                   *)
(* startRealtimePipeline, connectWebSocket, handleAuthErrorAndReconnect    *)
(***************************************************************************)
NullJwt == [tok |-> Null, exp |-> 0]

\* A token as the identity endpoint issued it; exp is the expiry the endpoint
\* gave it (loginForRealtime does not read it).
IssuedJwt(resp) == [tok |-> resp.token, exp |-> now + ExpiresInOf(resp) * 1000]

ORDINARY_DELAY == 60000
AUTH_ERROR_DELAY == 5000

\* Inbound payloads: the message kinds of the switch, a payload that is not
\* JSON, an unknown kind, and the JSON text `null` (it parses, and it has
\* no properties to read); code is the code of an `error` message.
ErrorCodes == {401, 403, 500}
Messages ==
    [type : {"nonJSON", "welcome", "authenticated", "subscribed", "device_update", "ping", "other",
             "jsonNull"},
     code : {0}]
      \cup [type : {"error"}, code : ErrorCodes]

\* The responses to loginForRealtime; a token is told apart by its expiry.
RealtimeLoginResponses == LoginResponsesOf({"jwtA"})

ConnectLogin == [for |-> "connect", sock |-> 0]
AuthErrLogin(s) == [for |-> "autherr", sock |-> s]

\* new WebSocket(WS_URL), with the jwt its handlers close over
NewWebSocket(jwt) ==
    [readyState |-> "CONNECTING", jwt |-> jwt, closedBy |-> "none",
     sent |-> <<>>, msgs |-> 0, pings |-> 0, stalled |-> FALSE]

\* A socket whose close event has been handled; nothing refers to it any more.
ClosedSocket ==
    [readyState |-> "CLOSED", jwt |-> NullJwt, closedBy |-> "none",
     sent |-> <<>>, msgs |-> 0, pings |-> 0, stalled |-> FALSE]

SetTimeout(delay) == timers (+) SetToBag({[delay |-> delay, due |-> now + delay]})

ConnInit ==
    /\ REALTIME_INSTANCE_ID \in BOOLEAN
    /\ started = FALSE
    /\ currentJwt = NullJwt
    /\ socks = <<>>
    /\ logins = EmptyBag
    /\ timers = EmptyBag
    /\ loginCount = 0
    /\ msgCount = 0

\* connectWebSocket() up to its first suspension.  getJwtEnsured() returns
\* currentJwt when it is set; otherwise loginForRealtime() either returns null
\* at once (identifiers missing) or suspends in axios.post.
connectWebSocket ==
    IF currentJwt # NullJwt
      THEN /\ Len(socks) < MaxSockets
           /\ socks' = Append(socks, NewWebSocket(currentJwt))
           /\ UNCHANGED <<logins, loginCount>>
      ELSE IF ~AUTH_IDS
        THEN UNCHANGED <<socks, logins, loginCount>>
        ELSE /\ loginCount < MaxLogins
             /\ logins' = logins (+) SetToBag({ConnectLogin})
             /\ loginCount' = loginCount + 1
             /\ UNCHANGED socks

startRealtimePipeline ==
    /\ ~started
    /\ started' = TRUE
    /\ IF ~REALTIME_INSTANCE_ID
         THEN UNCHANGED <<socks, logins, loginCount>>
         ELSE connectWebSocket
    /\ UNCHANGED <<now, REALTIME_INSTANCE_ID, currentJwt, timers, msgCount>>
    /\ UNCHANGED authVars
    /\ UNCHANGED classified
    /\ UNCHANGED uncaught
    /\ UNCHANGED liveVars

\* socket.close() of the ws library: an open or connecting socket starts closing
SocketClose(sk) ==
    IF sk.readyState \in {"OPEN", "CONNECTING"}
      THEN [sk EXCEPT !.readyState = "CLOSING", !.closedBy = "client"]
      ELSE sk

\* The continuation of loginForRealtime() after `await axios.post`, and of
\* its caller: connectWebSocket() or handleAuthErrorAndReconnect(socket).
loginForRealtime(l, resp) ==
    /\ BagIn(l, logins)
    /\ logins' = logins (-) SetToBag({l})
    /\ currentJwt' = IF resp.kind = "ok" THEN IssuedJwt(resp) ELSE currentJwt
    /\ IF l.for = "connect"
         THEN /\ IF resp.kind = "ok"
                   THEN /\ Len(socks) < MaxSockets
                        /\ socks' = Append(socks, NewWebSocket(IssuedJwt(resp)))
                   ELSE UNCHANGED socks
              /\ UNCHANGED timers
         ELSE /\ socks' = [socks EXCEPT ![l.sock] = SocketClose(@)]
              /\ timers' = SetTimeout(AUTH_ERROR_DELAY)
    /\ UNCHANGED <<now, REALTIME_INSTANCE_ID, started, loginCount, msgCount>>
    /\ UNCHANGED authVars
    /\ UNCHANGED classified
    /\ UNCHANGED uncaught
    /\ UNCHANGED liveVars

\* ws.on('open')
OnOpen(s) ==
    /\ socks[s].readyState = "CONNECTING"
    /\ socks' = [socks EXCEPT ![s].readyState = "OPEN",
                              ![s].sent = Append(@, [type |-> "authenticate", access_token |-> socks[s].jwt,
                                                     timestamp |-> now, readyState |-> "OPEN"])]
    /\ UNCHANGED <<now, REALTIME_INSTANCE_ID, started, currentJwt, logins, timers, loginCount, msgCount>>
    /\ UNCHANGED authVars
    /\ UNCHANGED classified
    /\ UNCHANGED uncaught
    /\ UNCHANGED liveVars

\* The ws library delivers messages while the socket is open, and still
\* does after the client called close() until the peer's close frame arrives.
\* A socket whose message listener threw synchronously may have stopped
\* reading (the library's receiver never completes the pending write).
Receiving(s) ==
    /\ ~socks[s].stalled
    /\ \/ socks[s].readyState = "OPEN"
       \/ socks[s].readyState = "CLOSING" /\ socks[s].closedBy = "client"

\* A test that takes every `error` message for an authentication rejection.
IsAuthError_AnyCode(m) == m.type = "error"

IsAuthError(m) == m.type = "error" /\ m.code \in {401, 403}

\* `data.type` on a payload that parsed to null raises a TypeError; the
\* try/catch of the handler encloses JSON.parse only.
Throws(m) == m.type = "jsonNull"

\* A handler that does not answer in the handling step.
SendPong_Deferred(sk) == sk

\* ws.send(JSON.stringify({ type: 'pong', timestamp: Date.now() }))
SendPong(sk) ==
    [sk EXCEPT !.sent = Append(@, [type |-> "pong", access_token |-> NullJwt,
                                    timestamp |-> now, readyState |-> sk.readyState])]

\* A handler that closes the socket before it awaits the login.
handleAuthErrorAndReconnect_CloseFirst(s, sk) ==
    /\ currentJwt' = NullJwt
    /\ loginCount < MaxLogins
    /\ logins' = logins (+) SetToBag({AuthErrLogin(s)})
    /\ loginCount' = loginCount + 1
    /\ socks' = [socks EXCEPT ![s] = SocketClose(sk)]
    /\ UNCHANGED timers

\* handleAuthErrorAndReconnect(socket) up to `await loginForRealtime()`; sk
\* is the socket with the message counted.  With the identifiers missing
\* loginForRealtime() returns at once and the handler runs to its end.
handleAuthErrorAndReconnect(s, sk) ==
    /\ currentJwt' = NullJwt
    /\ IF ~AUTH_IDS
         THEN /\ socks' = [socks EXCEPT ![s] = SocketClose(sk)]
              /\ timers' = SetTimeout(AUTH_ERROR_DELAY)
              /\ UNCHANGED <<logins, loginCount>>
         ELSE /\ loginCount < MaxLogins
              /\ logins' = logins (+) SetToBag({AuthErrLogin(s)})
              /\ loginCount' = loginCount + 1
              /\ socks' = [socks EXCEPT ![s] = sk]
              /\ UNCHANGED timers

\* ws.on('message') up to its first suspension.
OnMessage(s, m) ==
    /\ Receiving(s)
    /\ msgCount < MaxMsgs
    /\ msgCount' = msgCount + 1
    /\ LET sk == [socks[s] EXCEPT !.msgs = @ + 1,
                                 !.pings = IF m.type = "ping" THEN @ + 1 ELSE @] IN
       IF m.type = "ping"
         THEN /\ socks' = [socks EXCEPT ![s] = SendPong(sk)]
              /\ UNCHANGED <<currentJwt, logins, timers, loginCount>>
         ELSE IF IsAuthError(m)
           THEN handleAuthErrorAndReconnect(s, sk)
           ELSE /\ socks' = [socks EXCEPT ![s] = sk]
                /\ UNCHANGED <<currentJwt, logins, timers, loginCount>>
    /\ uncaught' = IF Throws(m) THEN uncaught + 1 ELSE uncaught
    /\ UNCHANGED <<now, REALTIME_INSTANCE_ID, started>>
    /\ UNCHANGED authVars
    /\ UNCHANGED classified
    /\ UNCHANGED liveVars

\* ws.on('error'): logs only.  The library leaves the socket closing and
\* emits close next.
OnError(s) ==
    /\ socks[s].readyState \in {"CONNECTING", "OPEN", "CLOSING"}
    /\ socks[s].closedBy # "error"
    /\ socks' = [socks EXCEPT ![s].readyState = "CLOSING", ![s].closedBy = "error"]
    /\ UNCHANGED <<now, REALTIME_INSTANCE_ID, started, currentJwt, logins, timers, loginCount, msgCount>>
    /\ UNCHANGED authVars
    /\ UNCHANGED classified
    /\ UNCHANGED uncaught
    /\ UNCHANGED liveVars

\* ws.on('close'): after a remote close of an open socket, after the
\* client's close(), or after a transport error.
OnClose(s) ==
    /\ socks[s].readyState \in {"OPEN", "CLOSING"}
    /\ socks' = [socks EXCEPT ![s] = ClosedSocket]
    /\ timers' = SetTimeout(ORDINARY_DELAY)
    /\ UNCHANGED <<now, REALTIME_INSTANCE_ID, started, currentJwt, logins, loginCount, msgCount>>
    /\ UNCHANGED authVars
    /\ UNCHANGED classified
    /\ UNCHANGED uncaught
    /\ UNCHANGED liveVars

\* A setTimeout callback runs: connectWebSocket()
OnTimer(t) ==
    /\ BagIn(t, timers)
    /\ t.due <= now
    /\ timers' = timers (-) SetToBag({t})
    /\ connectWebSocket
    /\ UNCHANGED <<now, REALTIME_INSTANCE_ID, started, currentJwt, msgCount>>
    /\ UNCHANGED authVars
    /\ UNCHANGED classified
    /\ UNCHANGED uncaught
    /\ UNCHANGED liveVars

Min(S) == CHOOSE x \in S : \A y \in S : x <= y

\* Time passes, up to the next pending timer: a due timer runs before the
\* clock moves on.
ConnClock ==
    /\ \A t \in BagToSet(timers) : t.due > now
    /\ now' = Min({now + ConnTick} \cup {t.due : t \in BagToSet(timers)})
    /\ now' <= MaxNow
    /\ UNCHANGED connVars
    /\ UNCHANGED authVars
    /\ UNCHANGED classified
    /\ UNCHANGED uncaught
    /\ UNCHANGED liveVars

Sockets == 1..Len(socks)
Transports == {s \in Sockets : socks[s].readyState # "CLOSED"}
ConnectsInFlight == CopiesIn(ConnectLogin, logins)
HandlersInFlight(s) == CopiesIn(AuthErrLogin(s), logins)

(***************************************************************************)
(* realtimePipeline.js: the live store (liveDevices, liveEvents),          *)
(* handleDeviceUpdate, classifyRisk, mpsToMph, toNumber                    *)
(***************************************************************************)
MAX_EVENTS == 200

\* A JavaScript number or its absence: null/undefined, a finite number,
\* +Infinity or -Infinity (v is the sign), or NaN.  Finite speeds are in
\* tenths of m/s, finite overspeed in millionths of mph.
NullNum == [k |-> "null", v |-> 0]
Num(v) == [k |-> "num", v |-> v]
Infinity(sign) == [k |-> "inf", v |-> sign]
NaN == [k |-> "NaN", v |-> 0]

\* A conversion that takes a missing value for 0.
toNumber_ZeroDefault(v) == IF v.k \in {"num", "inf"} THEN v ELSE Num(0)

\* toNumber(v): null for null, undefined and values Number() maps to NaN
toNumber(v) == IF v.k \in {"num", "inf"} THEN v ELSE NullNum

\* m/s to km/h (the factor 3.6 for 2.23694)
mpsToMph_Kmh(v) == IF v.k = "num" THEN Num(v.v * 360000) ELSE v

\* mpsToMph(v) = v * 2.23694, from tenths of m/s to millionths of mph
mpsToMph(v) == IF v.k = "num" THEN Num(v.v * 223694) ELSE v

MphUnit == 1000000

Max(a, b) == IF a >= b THEN a ELSE b

\* a - b on numbers
Minus(a, b) ==
    IF a.k = "NaN" \/ b.k = "NaN" THEN NaN
    ELSE IF a.k = "num" /\ b.k = "num" THEN Num(a.v - b.v)
    ELSE IF a.k = "inf" /\ b.k = "inf" THEN (IF a.v = b.v THEN NaN ELSE a)
    ELSE IF a.k = "inf" THEN a
    ELSE Infinity(0 - b.v)

\* Math.max(0, x)
MathMax0(x) ==
    IF x.k = "NaN" THEN NaN
    ELSE IF x.k = "inf" THEN (IF x.v = 1 THEN x ELSE Num(0))
    ELSE Num(Max(0, x.v))

\* x >= c and x <= c for a number x and a finite c; false for NaN
GreaterEq(x, c) == (x.k = "inf" /\ x.v = 1) \/ (x.k = "num" /\ x.v >= c)
LessEq(x, c) == (x.k = "inf" /\ x.v = -1) \/ (x.k = "num" /\ x.v <= c)

\* !x on a number: true for 0 and NaN
Not(x) == x.k = "NaN" \/ (x.k = "num" /\ x.v = 0)

\* The thresholds taken strictly (> for >=).
classifyRisk_Strict(overspeedMph) ==
    IF Not(overspeedMph) \/ LessEq(overspeedMph, 0) THEN "none"
    ELSE IF ~LessEq(overspeedMph, 20 * MphUnit) THEN "severe"
    ELSE IF ~LessEq(overspeedMph, 10 * MphUnit) THEN "medium"
    ELSE IF ~LessEq(overspeedMph, 5 * MphUnit) THEN "mild"
    ELSE "none"

classifyRisk(overspeedMph) ==
    IF Not(overspeedMph) \/ LessEq(overspeedMph, 0) THEN "none"
    ELSE IF GreaterEq(overspeedMph, 20 * MphUnit) THEN "severe"
    ELSE IF GreaterEq(overspeedMph, 10 * MphUnit) THEN "medium"
    ELSE IF GreaterEq(overspeedMph, 5 * MphUnit) THEN "mild"
    ELSE "none"

\* `device_update` payloads: the identity under either spelling (or none),
\* position.speed, position.speed_limit (a number, absent, or not numeric)
\* and whether the position carries lat/lon.  JSON.parse reads a literal
\* beyond the double range, such as 1e999, as Infinity.
Absent == [k |-> "absent", v |-> 0]
NotNumeric == [k |-> "text", v |-> 0]
Update(dt, dT, sp, lim, ll) ==
    [type |-> "device_update", code |-> 0, device_token |-> dt, deviceToken |-> dT,
     speed |-> sp, speed_limit |-> lim, latlon |-> ll]

DeviceUpdates ==
    { Update("d1", Null, Num(313), Num(246), TRUE),       \* 31.3 m/s against 24.6 m/s
      Update("d1", Null, Num(246), Num(246), TRUE),       \* speed equal to the limit
      Update("d1", Null, Num(200), Num(246), FALSE),      \* below the limit, no lat/lon
      Update(Null, "d2", Num(270), Num(246), TRUE),       \* 2.4 m/s over: mild
      Update("d2", Null, Num(340), Num(246), TRUE),       \* 9.4 m/s over: severe
      Update("d2", Null, Absent, Num(246), TRUE),         \* no speed
      Update("d2", Null, Num(313), NotNumeric, TRUE),     \* limit not a number
      Update(Null, Null, Num(313), Num(246), TRUE),       \* no identity
      Update(Null, Null, Num(246), Absent, FALSE),        \* no identity, no limit
      Update("d1", Null, Infinity(1), Infinity(1), TRUE), \* both beyond the double range
      Update("__proto__", Null, Num(313), Num(246), TRUE) } \* the identity "__proto__"

\* An identity that tells the updates without identity apart by their position.
DeviceTokenOf_ByPosition(data) ==
    IF data.device_token # Null THEN data.device_token
    ELSE IF data.deviceToken # Null THEN data.deviceToken
    ELSE IF data.latlon THEN "unknown-device" ELSE "unknown-device-2"

\* lines 197-223 of handleDeviceUpdate
DeviceTokenOf(data) ==
    IF data.device_token # Null THEN data.device_token
    ELSE IF data.deviceToken # Null THEN data.deviceToken
    ELSE "unknown-device"

OverspeedOf(data) ==
    LET speedMps == toNumber(data.speed)
        speedLimitMps == toNumber(data.speed_limit)
    IN IF speedMps # NullNum /\ speedLimitMps # NullNum
         THEN MathMax0(Minus(mpsToMph(speedMps), mpsToMph(speedLimitMps)))
         ELSE Num(0)

\* The snapshot of an update that keeps the time of the first write.
SnapshotOf_Stale(data, t) ==
    [lastUpdateAt |-> 0,
     riskLevel |-> classifyRisk(OverspeedOf(data)),
     overspeedMph |-> OverspeedOf(data),
     speedMps |-> toNumber(data.speed),
     speedLimitMps |-> toNumber(data.speed_limit),
     position |-> data.latlon,
     raw |-> data]

\* lines 226-234: the snapshot written to liveDevices[deviceToken]
SnapshotOf(data, t) ==
    [lastUpdateAt |-> t,
     riskLevel |-> classifyRisk(OverspeedOf(data)),
     overspeedMph |-> OverspeedOf(data),
     speedMps |-> toNumber(data.speed),
     speedLimitMps |-> toNumber(data.speed_limit),
     position |-> data.latlon,
     raw |-> data]

\* lines 238-245: the risk event; n is history, the number of the insertion
EventOf(data, t, n) ==
    [time |-> t,
     deviceToken |-> DeviceTokenOf(data),
     riskLevel |-> classifyRisk(OverspeedOf(data)),
     overspeedMph |-> OverspeedOf(data),
     latlon |-> data.latlon,
     n |-> n]

\* A truncation that drops the entry behind the new one, not the oldest.
Unshift_DropNewest(events, event) ==
    IF Len(events) >= MAX_EVENTS
      THEN <<event>> \o SubSeq(events, 2, MAX_EVENTS)
      ELSE <<event>> \o events

\* The event added at the back (push for unshift).
Unshift_Push(events, event) ==
    LET longer == events \o <<event>>
    IN IF Len(longer) > MAX_EVENTS THEN SubSeq(longer, 1, MAX_EVENTS) ELSE longer

\* lines 246-249: liveEvents.unshift(event), then truncation to MAX_EVENTS
Unshift(events, event) ==
    LET longer == <<event>> \o events
    IN IF Len(longer) > MAX_EVENTS THEN SubSeq(longer, 1, MAX_EVENTS) ELSE longer

\* liveDevices[deviceToken] = snapshot.  liveDevices is a plain object, `{}`:
\* the assignment under the key "__proto__" replaces the object's prototype
\* and creates no property, so the model keeps the prototype under that key
\* and Object.keys(liveDevices) leaves it out.
Put(devices, key, snapshot) ==
    [d \in DOMAIN devices \cup {key} |-> IF d = key THEN snapshot ELSE devices[d]]

\* The event added by an always-recording handler (the tier is not looked at).
handleDeviceUpdate_AlwaysRecord(st, data, t) ==
    [devices |-> Put(st.devices, DeviceTokenOf(data), SnapshotOf(data, t)),
     events |-> Unshift(st.events, EventOf(data, t, st.inserted + 1)),
     inserted |-> st.inserted + 1]

\* A handler that writes the snapshot and leaves the event for later.
handleDeviceUpdate_SnapshotFirst(st, data, t) ==
    [devices |-> Put(st.devices, DeviceTokenOf(data), SnapshotOf(data, t)),
     events |-> st.events,
     inserted |-> st.inserted]

\* handleDeviceUpdate(data) at time t, on a store st = [devices, events, inserted]
handleDeviceUpdate(st, data, t) ==
    LET riskLevel == classifyRisk(OverspeedOf(data)) IN
    [devices |-> Put(st.devices, DeviceTokenOf(data), SnapshotOf(data, t)),
     events |-> IF riskLevel # "none"
                  THEN Unshift(st.events, EventOf(data, t, st.inserted + 1))
                  ELSE st.events,
     inserted |-> IF riskLevel # "none" THEN st.inserted + 1 ELSE st.inserted]

\* Object.keys(liveDevices)
ObjectKeys(devices) == DOMAIN devices \ {"__proto__"}

\* Properties every plain object inherits from Object.prototype (some of them).
ObjectPrototypeKeys == {"constructor", "toString", "valueOf", "hasOwnProperty"}

Undefined == [k |-> "undefined"]

\* liveDevices[token]: the own property, or what the prototype chain gives.
\* The prototype is Object.prototype until an update under "__proto__" has
\* replaced it by a snapshot (whose own prototype is Object.prototype).
GetProperty(devices, token) ==
    IF token \in ObjectKeys(devices) THEN [k |-> "snapshot", v |-> devices[token]]
    ELSE IF token = "__proto__"
      THEN IF "__proto__" \in DOMAIN devices
             THEN [k |-> "snapshot", v |-> devices["__proto__"]]
             ELSE [k |-> "Object.prototype"]
    ELSE IF "__proto__" \in DOMAIN devices /\ token \in DOMAIN devices["__proto__"]
      THEN [k |-> "field", name |-> token, of |-> devices["__proto__"]]
    ELSE IF token \in ObjectPrototypeKeys THEN [k |-> "function"]
    ELSE Undefined

\* !device
Falsy(device) ==
    \/ device = Undefined
    \/ /\ device.k = "field"
       /\ \/ device.name = "position" /\ ~device.of.position
          \/ device.name = "speedMps" /\ device.of.speedMps = NullNum
          \/ device.name = "speedLimitMps" /\ device.of.speedLimitMps = NullNum
          \/ device.name \in {"overspeedMph", "speedMps", "speedLimitMps"}
               /\ device.of[device.name] \in {Num(0), NaN}

\* GET /api/live/devices/:deviceToken
queryDevice(devices, token) ==
    LET device == GetProperty(devices, token) IN
    IF Falsy(device)
      THEN [status |-> 404, deviceToken |-> token]
      ELSE [status |-> 200, body |-> device]

EmptyStore == [devices |-> <<>>, events |-> <<>>, inserted |-> 0]

\* The store st after k more updates of one speeding device at time 0
\* (the k applications are split in halves to keep the evaluation shallow).
RECURSIVE Repeated(_, _)
Repeated(st, k) ==
    IF k = 0 THEN st
    ELSE IF k = 1 THEN handleDeviceUpdate(st, Update("d1", Null, Num(313), Num(246), TRUE), 0)
    ELSE LET half == Repeated(st, k \div 2)
         IN IF half.inserted >= 0 THEN Repeated(half, k - (k \div 2)) ELSE half

StoreAfter(k) == Repeated(EmptyStore, k)

\* The stores the runs start from: empty, and one insertion short of full.
StartStores == {StoreAfter(0), StoreAfter(MAX_EVENTS - 1)}

Store == [devices |-> liveDevices, events |-> liveEvents, inserted |-> inserted]

(***************************************************************************)
(* realtimePipeline.js: setupRealtimePipeline, startRealtimeWebSocket,     *)
(* handleRealtimeMessage                                                   *)
(***************************************************************************)
RECONNECT_DELAY == 5000

StaticJwt(tok) == [tok |-> tok, exp |-> 0]

LiveMessages == {m \in Messages : m.type # "device_update"} \cup DeviceUpdates

LiveInit ==
    /\ REALTIME_JWT \in {Null, "static"}
    /\ ws = 0
    /\ reconnectTimer = FALSE
    /\ \E st \in StartStores :
         /\ liveDevices = st.devices
         /\ liveEvents = st.events
         /\ inserted = st.inserted

\* ws = new WebSocket(REALTIME_WS_URL), and the handlers are attached
startRealtimeWebSocket ==
    /\ Len(socks) < MaxSockets
    /\ socks' = Append(socks, NewWebSocket(StaticJwt(REALTIME_JWT)))
    /\ ws' = Len(socks) + 1

setupRealtimePipeline ==
    /\ ~started
    /\ started' = TRUE
    /\ IF REALTIME_JWT = Null \/ ~REALTIME_INSTANCE_ID
         THEN UNCHANGED <<socks, ws>>
         ELSE startRealtimeWebSocket
    /\ UNCHANGED <<now, REALTIME_INSTANCE_ID, currentJwt, logins, timers, loginCount, msgCount>>
    /\ UNCHANGED <<REALTIME_JWT, reconnectTimer, liveDevices, liveEvents, inserted>>
    /\ UNCHANGED authVars
    /\ UNCHANGED classified
    /\ UNCHANGED uncaught

\* ws.on('open') of startRealtimeWebSocket
LiveOnOpen(s) ==
    /\ socks[s].readyState = "CONNECTING"
    /\ IF REALTIME_JWT = Null \/ ~REALTIME_INSTANCE_ID
         THEN socks' = [socks EXCEPT ![s].readyState = "OPEN"]
         ELSE socks' = [socks EXCEPT ![s].readyState = "OPEN",
                                     ![s].sent = Append(@, [type |-> "authenticate",
                                                            access_token |-> StaticJwt(REALTIME_JWT),
                                                            timestamp |-> now, readyState |-> "OPEN"])]
    /\ UNCHANGED <<now, REALTIME_INSTANCE_ID, started, currentJwt, logins, timers, loginCount, msgCount>>
    /\ UNCHANGED liveVars
    /\ UNCHANGED authVars
    /\ UNCHANGED classified
    /\ UNCHANGED uncaught

\* A handler whose default case answers an unknown kind with a pong.
handleRealtimeMessage_PongDefault(s, m) ==
    /\ Receiving(s)
    /\ msgCount < MaxLiveMsgs
    /\ msgCount' = msgCount + 1
    /\ LET received == [socks EXCEPT ![s].msgs = @ + 1,
                                     ![s].pings = IF m.type = "ping" THEN @ + 1 ELSE @] IN
       IF m.type = "ping"
         THEN /\ socks' = IF ws # 0 /\ received[ws].readyState = "OPEN"
                            THEN [received EXCEPT ![ws] = SendPong(@)]
                            ELSE received
              /\ UNCHANGED <<liveDevices, liveEvents, inserted>>
         ELSE IF m.type = "device_update"
           THEN LET st == handleDeviceUpdate(Store, m, now) IN
                /\ liveDevices' = st.devices
                /\ liveEvents' = st.events
                /\ inserted' = st.inserted
                /\ socks' = received
           ELSE IF Throws(m)
             THEN /\ socks' \in {received, [received EXCEPT ![s].stalled = TRUE]}
                  /\ UNCHANGED <<liveDevices, liveEvents, inserted>>
             ELSE /\ socks' = IF m.type = "other" /\ ws # 0 /\ received[ws].readyState = "OPEN"
                                 THEN [received EXCEPT ![ws] = SendPong(@)]
                                 ELSE received
                  /\ UNCHANGED <<liveDevices, liveEvents, inserted>>
    /\ uncaught' = IF Throws(m) THEN uncaught + 1 ELSE uncaught
    /\ UNCHANGED <<now, REALTIME_INSTANCE_ID, started, currentJwt, logins, timers, loginCount>>
    /\ UNCHANGED <<REALTIME_JWT, ws, reconnectTimer>>
    /\ UNCHANGED authVars
    /\ UNCHANGED classified

\* ws.on('message') of startRealtimeWebSocket: JSON.parse, then
\* handleRealtimeMessage(data).  A ping is answered on the module-level ws.
handleRealtimeMessage(s, m) ==
    /\ Receiving(s)
    /\ msgCount < MaxLiveMsgs
    /\ msgCount' = msgCount + 1
    /\ LET received == [socks EXCEPT ![s].msgs = @ + 1,
                                     ![s].pings = IF m.type = "ping" THEN @ + 1 ELSE @] IN
       IF m.type = "ping"
         THEN /\ socks' = IF ws # 0 /\ received[ws].readyState = "OPEN"
                            THEN [received EXCEPT ![ws] = SendPong(@)]
                            ELSE received
              /\ UNCHANGED <<liveDevices, liveEvents, inserted>>
         ELSE IF m.type = "device_update"
           THEN LET st == handleDeviceUpdate(Store, m, now) IN
                /\ liveDevices' = st.devices
                /\ liveEvents' = st.events
                /\ inserted' = st.inserted
                /\ socks' = received
           ELSE IF Throws(m)
             THEN /\ socks' \in {received, [received EXCEPT ![s].stalled = TRUE]}
                  /\ UNCHANGED <<liveDevices, liveEvents, inserted>>
             ELSE /\ socks' = received
                  /\ UNCHANGED <<liveDevices, liveEvents, inserted>>
    /\ uncaught' = IF Throws(m) THEN uncaught + 1 ELSE uncaught
    /\ UNCHANGED <<now, REALTIME_INSTANCE_ID, started, currentJwt, logins, timers, loginCount>>
    /\ UNCHANGED <<REALTIME_JWT, ws, reconnectTimer>>
    /\ UNCHANGED authVars
    /\ UNCHANGED classified

\* ws.on('error') of startRealtimeWebSocket: logs only
LiveOnError(s) ==
    /\ socks[s].readyState \in {"CONNECTING", "OPEN"}
    /\ socks' = [socks EXCEPT ![s].readyState = "CLOSING", ![s].closedBy = "error"]
    /\ UNCHANGED <<now, REALTIME_INSTANCE_ID, started, currentJwt, logins, timers, loginCount, msgCount>>
    /\ UNCHANGED liveVars
    /\ UNCHANGED authVars
    /\ UNCHANGED classified
    /\ UNCHANGED uncaught

\* ws.on('close') of startRealtimeWebSocket: one guarded reconnect timer
LiveOnClose(s) ==
    /\ socks[s].readyState \in {"OPEN", "CLOSING"}
    /\ socks' = [socks EXCEPT ![s] = ClosedSocket]
    /\ IF ~reconnectTimer
         THEN /\ reconnectTimer' = TRUE
              /\ timers' = SetTimeout(RECONNECT_DELAY)
         ELSE UNCHANGED <<reconnectTimer, timers>>
    /\ UNCHANGED <<now, REALTIME_INSTANCE_ID, started, currentJwt, logins, loginCount, msgCount>>
    /\ UNCHANGED <<REALTIME_JWT, ws, liveDevices, liveEvents, inserted>>
    /\ UNCHANGED authVars
    /\ UNCHANGED classified
    /\ UNCHANGED uncaught

\* A reconnect that starts from an empty live store.
LiveOnTimer_FreshStore(t) ==
    /\ BagIn(t, timers)
    /\ t.due <= now
    /\ timers' = timers (-) SetToBag({t})
    /\ reconnectTimer' = FALSE
    /\ startRealtimeWebSocket
    /\ UNCHANGED <<now, REALTIME_INSTANCE_ID, started, currentJwt, logins, loginCount, msgCount>>
    /\ liveDevices' = EmptyStore.devices
    /\ liveEvents' = EmptyStore.events
    /\ UNCHANGED <<REALTIME_JWT, inserted>>
    /\ UNCHANGED authVars
    /\ UNCHANGED classified
    /\ UNCHANGED uncaught

\* A timer callback that leaves the handle set.
LiveOnTimer_KeepHandle(t) ==
    /\ BagIn(t, timers)
    /\ t.due <= now
    /\ timers' = timers (-) SetToBag({t})
    /\ reconnectTimer' = reconnectTimer
    /\ startRealtimeWebSocket
    /\ UNCHANGED <<now, REALTIME_INSTANCE_ID, started, currentJwt, logins, loginCount, msgCount>>
    /\ UNCHANGED <<REALTIME_JWT, liveDevices, liveEvents, inserted>>
    /\ UNCHANGED authVars
    /\ UNCHANGED classified
    /\ UNCHANGED uncaught

\* The reconnect timer runs: reconnectTimer = null; startRealtimeWebSocket()
LiveOnTimer(t) ==
    /\ BagIn(t, timers)
    /\ t.due <= now
    /\ timers' = timers (-) SetToBag({t})
    /\ reconnectTimer' = FALSE
    /\ startRealtimeWebSocket
    /\ UNCHANGED <<now, REALTIME_INSTANCE_ID, started, currentJwt, logins, loginCount, msgCount>>
    /\ UNCHANGED <<REALTIME_JWT, liveDevices, liveEvents, inserted>>
    /\ UNCHANGED authVars
    /\ UNCHANGED classified
    /\ UNCHANGED uncaught

(***************************************************************************)
(* realtimePipeline.js: classifyRisk called on its own                     *)
(***************************************************************************)
\* The arguments: every quarter of a mph from -2 mph, the values next to the
\* three thresholds, NaN and the two infinities.
Overspeeds ==
    {Num(q * (MphUnit \div 4)) : q \in -8..MaxQuarters}
      \cup {Num(b * MphUnit + e) : b \in {5, 10, 20}, e \in {-1, 0, 1}}
      \cup {NaN, Infinity(1), Infinity(-1)}

NoCall == [overspeedMph |-> NullNum, riskLevel |-> "unset"]

CallClassifyRisk(overspeedMph) ==
    /\ classified' = [overspeedMph |-> overspeedMph, riskLevel |-> classifyRisk(overspeedMph)]
    /\ UNCHANGED now
    /\ UNCHANGED uncaught
    /\ UNCHANGED authVars
    /\ UNCHANGED connVars
    /\ UNCHANGED liveVars

\* The parts of the state a specification does not move
AuthIdle ==
    /\ AUTH_IDS = TRUE
    /\ FALLBACK_STATIC_JWT = Null
    /\ cachedToken = Null
    /\ cachedExpiresAt = 0
    /\ call = [c \in Callers |-> Idle]
    /\ exchanges = 0

ConnIdle ==
    /\ ConnInit
    /\ REALTIME_INSTANCE_ID = TRUE

LiveIdle ==
    /\ REALTIME_JWT = Null
    /\ ws = 0
    /\ reconnectTimer = FALSE
    /\ liveDevices = EmptyStore.devices
    /\ liveEvents = EmptyStore.events
    /\ inserted = 0

InitAuth ==
    /\ now = 0
    /\ AuthInit
    /\ ConnIdle
    /\ LiveIdle
    /\ classified = NoCall
    /\ uncaught = 0

InitLive ==
    /\ now = 0
    /\ AuthIdle
    /\ ConnInit
    /\ LiveInit
    /\ classified = NoCall
    /\ uncaught = 0

NextLive ==
    \/ setupRealtimePipeline
    \/ \E s \in Sockets : LiveOnOpen(s)
    \/ \E s \in Sockets : \E m \in LiveMessages : handleRealtimeMessage(s, m)
    \/ \E s \in Sockets : LiveOnError(s)
    \/ \E s \in Sockets : LiveOnClose(s)
    \/ \E t \in BagToSet(timers) : LiveOnTimer(t)
    \/ ConnClock

SpecLive == InitLive /\ [][NextLive]_vars

Init ==
    /\ now = 0
    /\ AuthInit
    /\ FALLBACK_STATIC_JWT = Null
    /\ ConnInit
    /\ LiveIdle
    /\ classified = NoCall
    /\ uncaught = 0

Next ==
    \/ startRealtimePipeline
    \/ \E l \in BagToSet(logins) : \E resp \in RealtimeLoginResponses : loginForRealtime(l, resp)
    \/ \E s \in Sockets : OnOpen(s)
    \/ \E s \in Sockets : \E m \in Messages : OnMessage(s, m)
    \/ \E s \in Sockets : OnError(s)
    \/ \E s \in Sockets : OnClose(s)
    \/ \E t \in BagToSet(timers) : OnTimer(t)
    \/ ConnClock

Spec == Init /\ [][Next]_vars

NextAuth ==
    \/ \E c \in Callers : getRealtimeJwt(c)
    \/ \E c \in Callers : \E resp \in LoginResponses : fetchNewTokenFromDamoov(c, resp)
    \/ invalidateRealtimeJwt
    \/ AuthClock

SpecAuth == InitAuth /\ [][NextAuth]_vars

InitRisk ==
    /\ now = 0
    /\ AuthIdle
    /\ ConnIdle
    /\ LiveIdle
    /\ classified = NoCall
    /\ uncaught = 0

NextRisk == \E overspeedMph \in Overspeeds : CallClassifyRisk(overspeedMph)

SpecRisk == InitRisk /\ [][NextRisk]_vars

(***************************************************************************)
(* Claims about realtimeAuth.js (SpecAuth)                                 *)
(***************************************************************************)
\* C1: single-flight login.  At no time are two login exchanges of
\* getRealtimeJwt() in flight at once.
C1_SingleFlight == Cardinality(InFlight) <= 1


(***************************************************************************)
(* Claims about the connection loop (Spec)                                 *)
(***************************************************************************)
OpenOrOpening == {s \in Sockets : socks[s].readyState \in {"CONNECTING", "OPEN"}}

\* C2: a started pipeline that is disconnected always has a reconnect
\* scheduled or in progress: some transport exists, or a connection attempt
\* is in progress, or a reconnect timer is pending.
C2_ReconnectAlwaysPending ==
    (started /\ REALTIME_INSTANCE_ID /\ AUTH_IDS) =>
        \/ Transports # {}
        \/ ConnectsInFlight > 0
        \/ timers # EmptyBag

\* C3: one logical connection: the transports that are open or being opened
\* (a connection attempt in progress included) plus the pending reconnect
\* timers are at most one.
C3_OneLogicalConnection ==
    Cardinality(OpenOrOpening) + ConnectsInFlight + BagCardinality(timers) <= 1

C5_ShortenedDelayOnly ==
    \A t, u \in BagToSet(timers) :
        ~(t.delay = AUTH_ERROR_DELAY /\ u.delay = ORDINARY_DELAY)

\* C6: a connection attempt never takes, for its authenticate message, a
\* login-obtained credential that is inside the 60-second refresh window
\* (now >= expiresAt - 60 s).
C6_NoStaleCredential ==
    [][Len(socks') > Len(socks) =>
            now < socks'[Len(socks')].jwt.exp - safetyWindowMs]_vars

\* C7: the close event of a transport the client tore down deliberately
\* schedules no reconnect.
C7_ClientCloseSchedulesNothing ==
    [][\A s \in Sockets :
          (socks[s].closedBy = "client" /\ socks'[s].readyState = "CLOSED") =>
              timers' = timers]_vars

\* C8: every ping handled on a connection sends exactly one pong on that
\* connection in the same step (and nothing on any other connection),
\* stamped with a time not before the receipt of the ping.
C8_PongPerPing ==
    [][\A s \in Sockets :
          socks'[s].pings = socks[s].pings + 1 =>
              /\ Len(socks'[s].sent) = Len(socks[s].sent) + 1
              /\ socks'[s].sent[Len(socks'[s].sent)].type = "pong"
              /\ socks'[s].sent[Len(socks'[s].sent)].timestamp >= now
              /\ SubSeq(socks'[s].sent, 1, Len(socks[s].sent)) = socks[s].sent
              /\ \A r \in Sockets \ {s} : socks'[r].sent = socks[r].sent]_vars

\* A ping has been answered on a connection, at a time after the start.
C8_Witness ==
    \E s \in Sockets :
        /\ socks[s].pings > 0
        /\ \E i \in 1..Len(socks[s].sent) :
              socks[s].sent[i].type = "pong" /\ socks[s].sent[i].timestamp > 0

\* C9: messages of one connection are handled one after another: no
\* message is handled while the handling of an earlier one is unfinished.
C9_SequentialHandling ==
    [][\A s \in Sockets :
          socks'[s].msgs = socks[s].msgs + 1 => HandlersInFlight(s) = 0]_vars


(***************************************************************************)
(* Claims about the live store (SpecLive)                                  *)
(***************************************************************************)
\* C10: the risk-event sequence holds at most 200 entries and is ordered
\* most-recent-first: the entry at position i is the i-th most recent
\* insertion (so of two entries the one nearer the front was inserted later),
\* and no entry is older than the one behind it.
C10_EventsBoundedNewestFirst ==
    /\ Len(liveEvents) <= MAX_EVENTS
    /\ \A i \in 1..Len(liveEvents) : liveEvents[i].n = inserted - i + 1
    /\ \A i \in 1..(Len(liveEvents) - 1) : liveEvents[i].time >= liveEvents[i + 1].time

\* The sequence is full and an entry has been evicted by a later insertion.
C10_Witness ==
    /\ Len(liveEvents) = MAX_EVENTS
    /\ inserted > MAX_EVENTS
    /\ liveEvents[1].n = inserted

\* The steps that handle the `device_update` m: whatever socket delivers it.
Handles(m) == \E s \in Sockets : handleRealtimeMessage(s, m)

\* The record handleDeviceUpdate reads for m: the key it writes under.
KeyOf(m) ==
    IF m.device_token # Null THEN m.device_token
    ELSE IF m.deviceToken # Null THEN m.deviceToken
    ELSE "unknown-device"

\* C11: handling a `device_update` appends exactly one risk event when the
\* tier computed for it is not `none` (the new entry is at the front, the
\* entries behind it are the earlier ones) and appends none when the tier is
\* `none`; no entry of the risk-event sequence ever has tier `none`.
C11_OneEventPerRiskyUpdate ==
    /\ [](\A i \in 1..Len(liveEvents) : liveEvents[i].riskLevel # "none")
    /\ [][\A m \in DeviceUpdates : Handles(m) =>
            LET tier == liveDevices'[KeyOf(m)].riskLevel
                kept == Len(liveEvents') - 1
            IN IF tier # "none"
                 THEN /\ inserted' = inserted + 1
                      /\ Len(liveEvents') = IF Len(liveEvents) < MAX_EVENTS
                                              THEN Len(liveEvents) + 1 ELSE MAX_EVENTS
                      /\ liveEvents'[1].riskLevel = tier
                      /\ liveEvents'[1].deviceToken = KeyOf(m)
                      /\ liveEvents'[1].n = inserted + 1
                      /\ \A i \in 1..kept : liveEvents'[i + 1] = liveEvents[i]
                 ELSE /\ inserted' = inserted
                      /\ liveEvents' = liveEvents]_vars

\* One update with a tier was recorded and one with tier `none` was not.
C11_Witness ==
    /\ inserted = 1
    /\ Len(liveEvents) = 1
    /\ \E d \in ObjectKeys(liveDevices) : liveDevices[d].riskLevel = "none"

\* C12: a `device_update` for a token that is not in the store adds exactly
\* one snapshot (the device count grows by one, the other snapshots stay);
\* one for a known token leaves the count as it is; in both cases the
\* snapshot under the token is made of the latest update alone.
C12_UpsertOneSnapshot ==
    [][\A m \in DeviceUpdates : Handles(m) =>
          LET known == ObjectKeys(liveDevices)
              key == KeyOf(m)
          IN /\ IF key \in known
                  THEN Cardinality(ObjectKeys(liveDevices')) = Cardinality(known)
                  ELSE Cardinality(ObjectKeys(liveDevices')) = Cardinality(known) + 1
             /\ \A d \in known \ {key} : d \in ObjectKeys(liveDevices')
                                           /\ liveDevices'[d] = liveDevices[d]
             /\ liveDevices'[key].raw = m
             /\ liveDevices'[key].lastUpdateAt = now
             /\ liveDevices'[key].speedMps = toNumber(m.speed)
             /\ liveDevices'[key].speedLimitMps = toNumber(m.speed_limit)
             /\ liveDevices'[key].position = m.latlon]_vars

\* speed <= limit and speed = limit on the numbers of an update
IsNumber(x) == x.k \in {"num", "inf"}
SpeedWithinLimit(m) ==
    /\ IsNumber(m.speed) /\ IsNumber(m.speed_limit)
    /\ \/ m.speed = m.speed_limit
       \/ m.speed.k = "num" /\ m.speed_limit.k = "num" /\ m.speed.v <= m.speed_limit.v
       \/ m.speed_limit = Infinity(1)
       \/ m.speed = Infinity(-1)
SpeedEqualsLimit(m) == IsNumber(m.speed) /\ m.speed = m.speed_limit

\* C14: for every `device_update` whose speed is less than or equal to its
\* speed limit, the overspeed computed for it is 0 and the tier is `none`.
C14_WithinLimitIsNone ==
    [][\A m \in DeviceUpdates : (Handles(m) /\ SpeedWithinLimit(m)) =>
          /\ liveDevices'[KeyOf(m)].overspeedMph = Num(0)
          /\ liveDevices'[KeyOf(m)].riskLevel = "none"]_vars

\* C15: handling a `device_update` whose speed equals its limit leaves the
\* risk-event sequence as it is and writes the device's snapshot with
\* lastUpdateAt set to the time of the handling.
C15_AtLimitSnapshotOnly ==
    [][\A m \in DeviceUpdates : (Handles(m) /\ SpeedEqualsLimit(m)) =>
          /\ liveEvents' = liveEvents
          /\ inserted' = inserted
          /\ liveDevices'[KeyOf(m)].raw = m
          /\ liveDevices'[KeyOf(m)].lastUpdateAt = now]_vars

\* An update at its limit was handled after the clock had moved.
C15_Witness ==
    /\ now > 0
    /\ inserted = 0
    /\ \E d \in ObjectKeys(liveDevices) :
         /\ SpeedEqualsLimit(liveDevices[d].raw)
         /\ liveDevices[d].lastUpdateAt = now

\* C16: a `device_update` reporting 31.3 m/s against a limit of 24.6 m/s
\* yields an overspeed of about 15 mph (the difference of the two speeds
\* times 2.23694, within a tenth of a mph of 15), tier `medium`, and one
\* appended risk event.
C16_WorkedExample ==
    [][\A m \in DeviceUpdates :
          (Handles(m) /\ m.speed = Num(313) /\ m.speed_limit = Num(246)) =>
             LET snapshot == liveDevices'[KeyOf(m)] IN
             /\ snapshot.overspeedMph.k = "num"
             /\ 10 * snapshot.overspeedMph.v = (313 - 246) * 2236940
             /\ snapshot.overspeedMph.v > 15 * MphUnit - (MphUnit \div 10)
             /\ snapshot.overspeedMph.v < 15 * MphUnit + (MphUnit \div 10)
             /\ snapshot.riskLevel = "medium"
             /\ inserted' = inserted + 1
             /\ liveEvents'[1].riskLevel = "medium"
             /\ liveEvents'[1].overspeedMph = snapshot.overspeedMph]_vars

\* The update was handled on an empty store.
C16_Witness ==
    /\ inserted = 1
    /\ Len(liveEvents) = 1
    /\ liveEvents[1].riskLevel = "medium"
    /\ liveEvents[1].deviceToken = "d1"
    /\ "d1" \in ObjectKeys(liveDevices)
    /\ liveDevices["d1"].raw.speed = Num(313)

(***************************************************************************)
(* Claims about classifyRisk (SpecRisk)                                    *)
(***************************************************************************)
\* The tier of an overspeed as the thresholds 5, 10 and 20 mph give it.
TierOf(x) ==
    IF ~GreaterEq(x, 5 * MphUnit) THEN "none"
    ELSE IF ~GreaterEq(x, 10 * MphUnit) THEN "mild"
    ELSE IF ~GreaterEq(x, 20 * MphUnit) THEN "medium"
    ELSE "severe"

Severity(tier) == CASE tier = "none" -> 0 [] tier = "mild" -> 1
                    [] tier = "medium" -> 2 [] tier = "severe" -> 3

\* x <= y on two numbers that are not NaN
NumLessEq(x, y) ==
    \/ x = y
    \/ x = Infinity(-1)
    \/ y = Infinity(1)
    \/ x.k = "num" /\ y.k = "num" /\ x.v <= y.v

\* C13: classifyRisk maps an overspeed below 5 (zero and negative values
\* included) to `none`, one from 5 and below 10 to `mild`, one from 10 and
\* below 20 to `medium` and one from 20 to `severe`; of two calls the one
\* with the larger overspeed never gets the lower tier.
C13_TierBoundaries ==
    /\ [](IsNumber(classified.overspeedMph) =>
             classified.riskLevel = TierOf(classified.overspeedMph))
    /\ [][(IsNumber(classified.overspeedMph) /\ IsNumber(classified'.overspeedMph)
             /\ NumLessEq(classified.overspeedMph, classified'.overspeedMph)) =>
            Severity(classified.riskLevel) <= Severity(classified'.riskLevel)]_vars

\* classifyRisk has been called with exactly 5 mph.
C13_Witness ==
    /\ classified.overspeedMph = Num(5 * MphUnit)
    /\ classified.riskLevel = "mild"

(***************************************************************************)
(* Claims about the credential cache, continued (SpecAuth)                 *)
(***************************************************************************)
\* The login responses that are failures: a network error, a timeout or a
\* non-2xx status, and a 2xx response without a token.
FailedResponses == {resp \in LoginResponses : resp.kind # "ok"}

\* The configured override credential, or absence.
OverrideOrAbsent == IF FALLBACK_STATIC_JWT # Null THEN FALLBACK_STATIC_JWT ELSE Null

\* C17: a failed login exchange leaves the cached token and its expiry as
\* they were, and the call returns (a failure value: no token of the
\* endpoint) rather than ending in an exception.
C17_FailureLeavesCache ==
    [][\A c \in Callers : \A resp \in FailedResponses :
          fetchNewTokenFromDamoov(c, resp) =>
             /\ cachedToken' = cachedToken
             /\ cachedExpiresAt' = cachedExpiresAt
             /\ call'[c].pc = "idle"
             /\ call'[c].ret \notin Tokens]_vars

\* The only caller so far has a cached token and its latest exchange failed.
C17_Witness ==
    /\ AUTH_IDS
    /\ call[2] = Idle
    /\ call[1] = [pc |-> "idle", ret |-> OverrideOrAbsent, exch |-> TRUE]
    /\ cachedToken \in Tokens

\* C18: when a login exchange fails while the cached credential is inside
\* the 60-second refresh window and not yet expired, get() returns that
\* cached credential; get() returns absence only when no unexpired
\* credential is cached.
C18_UnexpiredCacheSurvivesFailure ==
    [][\A c \in Callers : \A resp \in FailedResponses :
          fetchNewTokenFromDamoov(c, resp) =>
             /\ (/\ cachedToken # Null
                 /\ cachedExpiresAt - safetyWindowMs <= now
                 /\ now < cachedExpiresAt) => call'[c].ret = cachedToken
             /\ call'[c].ret = Null => (cachedToken = Null \/ now >= cachedExpiresAt)]_vars

\* C19: get() with a cached credential for which now < expiresAt - 60 s
\* returns it and issues no login exchange; otherwise it refreshes (one
\* login exchange when the login identifiers are configured) and returns the
\* fresh credential on success, the configured override credential when the
\* refresh fails and an override is configured, and absence otherwise.
C19_GetContract ==
    [][\A c \in Callers :
          /\ getRealtimeJwt(c) =>
                IF cachedToken # Null /\ now < cachedExpiresAt - 60000
                  THEN /\ call'[c].pc = "idle"
                       /\ call'[c].ret = cachedToken
                       /\ exchanges' = exchanges
                  ELSE IF AUTH_IDS
                    THEN /\ call'[c].pc = "awaitLogin"
                         /\ exchanges' = exchanges + 1
                    ELSE /\ call'[c].pc = "idle"
                         /\ call'[c].ret = OverrideOrAbsent
                         /\ exchanges' = exchanges
          /\ \A resp \in LoginResponses :
                fetchNewTokenFromDamoov(c, resp) =>
                   /\ call'[c].pc = "idle"
                   /\ call'[c].ret = IF resp.kind = "ok" THEN resp.token ELSE OverrideOrAbsent
                   /\ exchanges' = exchanges]_vars

\* One caller was served from the cache; the other refreshed, failed and got
\* the configured override.
C19_Witness ==
    /\ FALLBACK_STATIC_JWT # Null
    /\ cachedToken \in Tokens
    /\ call[1] = [pc |-> "idle", ret |-> cachedToken, exch |-> FALSE]
    /\ call[2] = [pc |-> "idle", ret |-> FALLBACK_STATIC_JWT, exch |-> TRUE]

CredentialOf(resp) == [token |-> resp.token, expiresAt |-> now + ExpiresInOf(resp) * 1000]

\* What a reader of the cache sees (lines 116-118 read both variables).
CachedCredential == [token |-> cachedToken, expiresAt |-> cachedExpiresAt]

\* C21: a successful refresh replaces the token and the expiry together, in
\* one step: every step that changes the cached pair leaves it either the
\* pair of one login response or the cleared pair, so no reader sees the
\* token of one response with the expiry of another.
C21_TokenAndExpiryTogether ==
    [][CachedCredential' # CachedCredential =>
          \/ CachedCredential' = [token |-> Null, expiresAt |-> 0]
          \/ \E resp \in LoginResponses :
                resp.kind = "ok" /\ CachedCredential' = CredentialOf(resp)]_vars

\* A second successful refresh, with another token and another lifetime,
\* has replaced the credential of the first.
C21_Witness ==
    /\ now = 0
    /\ call[1] = [pc |-> "idle", ret |-> "jwtA", exch |-> TRUE]
    /\ call[2] = [pc |-> "idle", ret |-> "jwtB", exch |-> TRUE]
    /\ CachedCredential = [token |-> "jwtB", expiresAt |-> 90000]

\* C22: when the login identifiers are absent no login exchange is ever
\* issued, however many times get() is called, and each get() returns the
\* static override credential if one is configured and absence otherwise.
C22_NoIdentifiersNoExchange ==
    /\ [](~AUTH_IDS => (exchanges = 0 /\ InFlight = {}))
    /\ [][\A c \in Callers : (getRealtimeJwt(c) /\ ~AUTH_IDS) =>
             /\ call'[c].pc = "idle"
             /\ call'[c].ret = OverrideOrAbsent
             /\ exchanges' = exchanges]_vars

\* Without the identifiers both callers have called get() and got the override.
C22_Witness ==
    /\ ~AUTH_IDS
    /\ FALLBACK_STATIC_JWT # Null
    /\ \A c \in Callers : call[c] = [pc |-> "idle", ret |-> FALLBACK_STATIC_JWT, exch |-> FALSE]

(***************************************************************************)
(* Claims about the start of the pipeline and the connection               *)
(***************************************************************************)
\* The minimum configuration: the target instance identifier, and a static
\* credential or the login identifiers.
MinimumConfigured == REALTIME_INSTANCE_ID /\ (REALTIME_JWT # Null \/ AUTH_IDS)

\* C23: start() opens a transport connection if and only if the target
\* instance identifier is configured and a static credential or the login
\* identifiers are configured; without that minimum no connection is ever
\* opened.
C23_StartOpensIffConfigured ==
    /\ ~MinimumConfigured => socks = <<>>
    /\ (started /\ MinimumConfigured) => socks # <<>>

\* The authenticate messages among the outbound messages of a socket
Authenticates(sk) == {i \in 1..Len(sk.sent) : sk.sent[i].type = "authenticate"}

\* C24: on every connection exactly one authenticate message is sent, it is
\* the first outbound message, it is sent in the step in which the handshake
\* completes, and it carries the credential that is current in that step.
C24_AuthenticateWithCurrentCredential ==
    [][\A s \in Sockets :
          /\ (socks[s].readyState = "CONNECTING" /\ socks'[s].readyState = "OPEN") =>
                /\ Authenticates(socks'[s]) = {1}
                /\ Len(socks'[s].sent) = 1
                /\ socks'[s].sent[1].access_token = currentJwt
          /\ socks[s].readyState # "CONNECTING" =>
                Authenticates(socks'[s]) \subseteq Authenticates(socks[s])]_vars

(***************************************************************************)
(* Claims about message handling (SpecLive)                                *)
(***************************************************************************)
\* The payloads the handler only logs: not JSON, or of a kind with no effect.
QuietMessages ==
    {m \in LiveMessages : m.type \in {"nonJSON", "welcome", "authenticated", "subscribed", "other"}}

\* What a socket is to the program and to the peer, without the delivery counters.
Connection(sk) ==
    [readyState |-> sk.readyState, closedBy |-> sk.closedBy, sent |-> sk.sent,
     jwt |-> sk.jwt, stalled |-> sk.stalled]

\* C26: a payload that cannot be parsed, and a parsed message of kind
\* welcome, authenticated, subscribed or of an unknown kind, leaves the
\* device snapshots, the risk events, the credential and every connection
\* as they were, sends nothing and schedules no reconnect.
C26_QuietKindsChangeNothing ==
    [][\A m \in QuietMessages : Handles(m) =>
          /\ liveDevices' = liveDevices
          /\ liveEvents' = liveEvents
          /\ inserted' = inserted
          /\ <<cachedToken, cachedExpiresAt, currentJwt, REALTIME_JWT>>'
                = <<cachedToken, cachedExpiresAt, currentJwt, REALTIME_JWT>>
          /\ <<ws, reconnectTimer, timers, logins>>' = <<ws, reconnectTimer, timers, logins>>
          /\ Len(socks') = Len(socks)
          /\ \A k \in Sockets : Connection(socks'[k]) = Connection(socks[k])
          /\ uncaught' = uncaught]_vars

\* Two messages have been handled on the open connection and both were only
\* logged: the store is still empty, no pong was sent and nothing was raised.
C26_Witness ==
    /\ ws # 0
    /\ socks[ws].readyState = "OPEN"
    /\ socks[ws].msgs = 2
    /\ socks[ws].pings = 0
    /\ Len(socks[ws].sent) = 1
    /\ uncaught = 0
    /\ liveDevices = EmptyStore.devices
    /\ liveEvents = <<>>

\* The payloads JSON.parse accepts, whatever their shape.
ParsedMessages == {m \in LiveMessages : m.type # "nonJSON"}

\* C27: handling a parseable payload, whatever its shape, raises nothing
\* out of the message callback, leaves the connection in the state it had,
\* and leaves the connection able to handle the next message.
C27_HandlingFailureContained ==
    [][\A s \in Sockets : \A m \in ParsedMessages : handleRealtimeMessage(s, m) =>
          /\ uncaught' = uncaught
          /\ socks'[s].readyState = socks[s].readyState
          /\ ~socks'[s].stalled]_vars

(***************************************************************************)
(* Claims about the readers of the live store (SpecLive)                   *)
(***************************************************************************)
\* The tokens asked for: tokens of devices, one never reported, and names
\* that mean something to a JavaScript object.
QueryTokens == {"d1", "d2", "d9", "unknown-device", "__proto__", "constructor", "riskLevel"}

\* The tokens for which a device_update has been handled
Updated == DOMAIN liveDevices

Found(t) == queryDevice(liveDevices, t).status = 200

\* C28: the single-device query answers with a snapshot for token t exactly
\* when a device_update for t has been handled and with 404 otherwise, and
\* a token that is found is found in every later state.
C28_FoundIffUpdated ==
    /\ [](\A t \in QueryTokens :
            /\ Found(t) <=> t \in Updated
            /\ Found(t) => queryDevice(liveDevices, t).body = [k |-> "snapshot", v |-> liveDevices[t]])
    /\ [][\A t \in QueryTokens : Found(t) => Found(t)']_vars

\* What a reader gets: the snapshot stored under d is the whole record of
\* one update, every field computed from that update.
WholeSnapshot(d) ==
    /\ DeviceTokenOf(liveDevices[d].raw) = d
    /\ liveDevices[d] = SnapshotOf(liveDevices[d].raw, liveDevices[d].lastUpdateAt)

\* The risk event of the update whose snapshot is stored under d
EventsOf(d) ==
    {i \in 1..Len(liveEvents) :
        /\ liveEvents[i].deviceToken = d
        /\ liveEvents[i].time = liveDevices[d].lastUpdateAt
        /\ liveEvents[i].riskLevel = liveDevices[d].riskLevel
        /\ liveEvents[i].overspeedMph = liveDevices[d].overspeedMph}

\* The buffer is full of events that are not older than the snapshot under d
EvictedSince(d) ==
    /\ Len(liveEvents) = MAX_EVENTS
    /\ liveEvents[MAX_EVENTS].time >= liveDevices[d].lastUpdateAt

\* C29: in every state a reader can see, each stored snapshot is the whole
\* record of one update, and a snapshot whose tier is not `none` has its risk
\* event in the event sequence (unless newer events have pushed it out).
C29_ReaderSeesWholeUpdates ==
    \A d \in DOMAIN liveDevices :
        /\ WholeSnapshot(d)
        /\ liveDevices[d].riskLevel # "none" => (EventsOf(d) # {} \/ EvictedSince(d))

\* Device d2 was reported 9.4 m/s over the limit on an empty store, and a
\* later message has been handled after it: the snapshot is severe and its
\* event is the only one.
C29_Witness ==
    /\ msgCount = 2
    /\ inserted = 1
    /\ "d2" \in DOMAIN liveDevices
    /\ liveDevices["d2"].riskLevel = "severe"
    /\ EventsOf("d2") = {1}

(***************************************************************************)
(* Claims about repeated authentication rejections (Spec)                  *)
(***************************************************************************)
\* The reconnects that handleAuthErrorAndReconnect has scheduled and that
\* have not fired yet
RejectionReconnects ==
    BagCardinality([t \in {u \in BagToSet(timers) : u.delay = AUTH_ERROR_DELAY} |-> timers[t]])

\* C30: authentication rejections do not multiply: the rejections of one
\* connection have at most one login exchange in progress, however many
\* 401/403 messages arrive on it, and at most one reconnect after a
\* rejection is pending.
C30_RejectionsDoNotMultiply ==
    /\ \A s \in Sockets : HandlersInFlight(s) <= 1
    /\ RejectionReconnects <= 1

(***************************************************************************)
(* Further claims about the live store (SpecLive)                          *)
(***************************************************************************)
\* C31: when the risk-event sequence holds 200 entries, an insertion yields
\* the new event followed by the first 199 entries of the previous sequence
\* in their order; only the oldest entry is dropped.
C31_FullBufferDropsOldest ==
    [][\A m \in DeviceUpdates :
          (Handles(m) /\ Len(liveEvents) = MAX_EVENTS /\ inserted' # inserted) =>
              /\ Len(liveEvents') = MAX_EVENTS
              /\ liveEvents'[1].deviceToken = KeyOf(m)
              /\ liveEvents'[1].time = now
              /\ liveEvents'[1].n = inserted + 1
              /\ \A i \in 1..(MAX_EVENTS - 1) : liveEvents'[i + 1] = liveEvents[i]]_vars

\* Device d2 was recorded on a full sequence: its event is at the front and
\* the second of the earlier insertions is now the oldest entry.
C31_Witness ==
    /\ Len(liveEvents) = MAX_EVENTS
    /\ inserted = MAX_EVENTS + 1
    /\ liveEvents[1].deviceToken = "d2"
    /\ liveEvents[MAX_EVENTS].n = 2

(***************************************************************************)
(* Further claims about the connection loop (Spec)                         *)
(***************************************************************************)
\* The `error` messages whose code is neither 401 nor 403
OtherErrors == {m \in Messages : m.type = "error" /\ m.code \notin {401, 403}}

\* C32: an inbound `error` message whose code is not 401 or 403 leaves the
\* credential as it is, starts no login exchange, does not close the
\* transport and schedules no reconnect.
C32_OtherErrorsOnlyLogged ==
    [][\A s \in Sockets : \A m \in OtherErrors : OnMessage(s, m) =>
          /\ currentJwt' = currentJwt
          /\ CachedCredential' = CachedCredential
          /\ logins' = logins
          /\ loginCount' = loginCount
          /\ timers' = timers
          /\ Len(socks') = Len(socks)
          /\ \A k \in Sockets : Connection(socks'[k]) = Connection(socks[k])]_vars

\* Two messages have been handled on the only connection, which is still
\* open with its credential: no login after the first one, no timer, no pong.
C32_Witness ==
    /\ Len(socks) = 1
    /\ socks[1].readyState = "OPEN"
    /\ socks[1].msgs = 2
    /\ socks[1].pings = 0
    /\ loginCount = 1
    /\ logins = EmptyBag
    /\ timers = EmptyBag
    /\ currentJwt = socks[1].jwt
    /\ uncaught = 0

(***************************************************************************)
(* Further claims about the credential cache (SpecAuth)                    *)
(***************************************************************************)
\* C33: after a successful login exchange the cached expiry is the time of
\* the response plus the expiry duration the response gives, in seconds, and
\* plus 86400 seconds when the response gives no expiry duration.
C33_ExpiryFromResponse ==
    [][\A c \in Callers : \A resp \in LoginResponses :
          (resp.kind = "ok" /\ fetchNewTokenFromDamoov(c, resp)) =>
              cachedExpiresAt' = now + 1000 * (IF resp.expiresIn = NoExpiresIn
                                                 THEN DefaultExpiresIn
                                                 ELSE resp.expiresIn)]_vars

(***************************************************************************)
(* Further claims about the live store and its connection (SpecLive)       *)
(***************************************************************************)
\* C34: every stored snapshot has overspeedMph >= 0 and the tier that
\* classifyRisk gives for its overspeedMph, and every risk event carries the
\* tier and the overspeed of the snapshot written by the same update.
C34_SnapshotAndEventAgree ==
    /\ [](\A d \in DOMAIN liveDevices :
            /\ GreaterEq(liveDevices[d].overspeedMph, 0)
            /\ liveDevices[d].riskLevel = classifyRisk(liveDevices[d].overspeedMph))
    /\ [][\A m \in DeviceUpdates : (Handles(m) /\ inserted' # inserted) =>
            /\ liveEvents'[1].riskLevel = liveDevices'[KeyOf(m)].riskLevel
            /\ liveEvents'[1].overspeedMph = liveDevices'[KeyOf(m)].overspeedMph]_vars

\* C35: the device token of every entry of the risk-event sequence is a key
\* of the device-snapshot map.
C35_EventTokensAreKeys ==
    \A i \in 1..Len(liveEvents) : liveEvents[i].deviceToken \in ObjectKeys(liveDevices)

\* The steps of a reconnect: a transport error, a close, the reconnect timer
\* and the handshake of the new connection.
Reconnecting ==
    \/ \E s \in Sockets : LiveOnError(s) \/ LiveOnClose(s) \/ LiveOnOpen(s)
    \/ \E t \in BagToSet(timers) : LiveOnTimer(t)

\* C36: a transport error, the closing of a connection and a reconnect leave
\* the device snapshots and the risk events as they are.
C36_ReconnectKeepsLiveState ==
    [][Reconnecting =>
          /\ liveDevices' = liveDevices
          /\ liveEvents' = liveEvents
          /\ inserted' = inserted]_vars

\* Device d2 was reported on the first connection, which has closed; the
\* second connection is open, has received nothing, and d2 is still there
\* with its event.
C36_Witness ==
    /\ Len(socks) = 2
    /\ socks[1].readyState = "CLOSED"
    /\ socks[2].readyState = "OPEN"
    /\ socks[2].msgs = 0
    /\ msgCount > 0
    /\ "d2" \in ObjectKeys(liveDevices)
    /\ liveEvents # <<>>
    /\ liveEvents[1].deviceToken = "d2"

LackingUpdates == {m \in DeviceUpdates : m.speed = Absent \/ m.speed_limit = Absent}

\* C38: a `device_update` that lacks a speed or lacks a speed limit is stored
\* with overspeed 0 and tier `none` and adds no risk event; its snapshot is
\* written.
C38_LackingSpeedIsNone ==
    [][\A m \in LackingUpdates : Handles(m) =>
          /\ KeyOf(m) \in ObjectKeys(liveDevices')
          /\ liveDevices'[KeyOf(m)].raw = m
          /\ liveDevices'[KeyOf(m)].lastUpdateAt = now
          /\ liveDevices'[KeyOf(m)].overspeedMph = Num(0)
          /\ liveDevices'[KeyOf(m)].riskLevel = "none"
          /\ liveEvents' = liveEvents
          /\ inserted' = inserted]_vars

\* An update without speed and one without speed limit have been handled
\* on an empty store: two snapshots, no event.
C38_Witness ==
    /\ msgCount = 2
    /\ inserted = 0
    /\ liveEvents = <<>>
    /\ \E d \in ObjectKeys(liveDevices) : liveDevices[d].raw.speed = Absent
    /\ \E d \in ObjectKeys(liveDevices) :
          liveDevices[d].raw.speed_limit = Absent /\ liveDevices[d].raw.speed # Absent

\* The updates that carry no device identity
AnonymousUpdates == {m \in DeviceUpdates : m.device_token = Null /\ m.deviceToken = Null}

\* C40: every `device_update` without device identity is stored under the
\* one key `unknown-device`: it adds that key if it is not there, adds no
\* other key, leaves the other snapshots alone and replaces the snapshot
\* under the key by its own.
C40_AnonymousUnderOneKey ==
    [][\A m \in AnonymousUpdates : Handles(m) =>
          /\ ObjectKeys(liveDevices') = ObjectKeys(liveDevices) \cup {"unknown-device"}
          /\ liveDevices'["unknown-device"].raw = m
          /\ liveDevices'["unknown-device"].lastUpdateAt = now
          /\ \A d \in ObjectKeys(liveDevices) \ {"unknown-device"} :
                liveDevices'[d] = liveDevices[d]]_vars

\* Two different updates without identity have been handled on an empty
\* store: the first left its event, the second its snapshot, under one key.
C40_Witness ==
    /\ msgCount = 2
    /\ ObjectKeys(liveDevices) = {"unknown-device"}
    /\ liveDevices["unknown-device"].raw.speed_limit = Absent
    /\ inserted = 1
    /\ liveEvents[1].deviceToken = "unknown-device"
    /\ liveEvents[1].riskLevel # liveDevices["unknown-device"].riskLevel

(***************************************************************************)
(* Claims about outbound messages (Spec)                                   *)
(***************************************************************************)
\* C39: no outbound message, authenticate or pong, is sent on a transport
\* that is not open.
C39_SendsOnlyOnOpen ==
    \A s \in Sockets : \A i \in 1..Len(socks[s].sent) : socks[s].sent[i].readyState = "OPEN"

====
